---- MODULE Spec2Model ----
(***************************************************************************)
(* The dashboard scripting bridge (scripts/dashboard.py) and the receiving *)
(* engine it talks to.                                                     *)
(*                                                                         *)
(* Client side (from scripts/dashboard.py): the command builders, send,    *)
(* print and the FileOut adapter installed on sys.stdout / sys.stderr.     *)
(* Transport and receiver (dashboard_sys and the engine behind it, whose   *)
(* code is not part of scripts/): an ordered channel of frames, the widget *)
(* registry keyed by (id, name), the index-addressed todo list and the     *)
(* session flag.                                                           *)
(*                                                                         *)
(* Python values are modelled as follows: a dict is a record, a list or a  *)
(* tuple is a sequence, a float bound 0. / 10. is the integer 0 / 10.      *)
(* A Python list index k addresses element k+1 of a TLA+ sequence.         *)
(***************************************************************************)
EXTENDS Integers, Sequences, FiniteSets, TLC

VARIABLES
    loaded,      \* the module body has run (lines 130-131 executed)
    stdout,      \* what sys.stdout is bound to: "console" or "FileOut"
    stderr,      \* what sys.stderr is bound to
    chan,        \* frames handed to dashboard_sys.send, not yet applied (FIFO)
    printed,     \* strings handed to dashboard_sys.print, in order
    registry,    \* receiver: (id, name) -> [action, payload, version]
    todos,       \* receiver: the todo list
    running,     \* receiver: the session has not been ended by exit
    err,         \* receiver: outcome of the last applied frame
    calls,       \* history: number of client / transport operations so far
    origin,      \* history: for each frame in chan, the call that produced it
    nsent,       \* history: number of frames handed to dashboard_sys.send
    napplied,    \* history: number of frames the receiver has applied
    lastCall,    \* history: the last client call, with nsent / printed before it
    last,        \* history: the last applied frame, its call, the state before it
    prev,        \* history: the frame applied before that one
    lastDraw,    \* history: per key, the last applied draw frame since a reload
    preReload,   \* history: the widgets that reloads have cleared, as they last were
    addLog,      \* history: arguments of the applied todo_add calls
    onlyAdds     \* history: no todo_done / todo_del call has been applied

clientVars == <<loaded, stdout, stderr>>
transportVars == <<chan, printed>>
receiverVars == <<registry, todos, running, err>>
callHist == <<calls, origin, nsent, lastCall>>
applyHist == <<napplied, last, prev, lastDraw, preReload, addLog, onlyAdds>>
vars == <<clientVars, transportVars, receiverVars, callHist, applyHist>>

----------------------------------------------------------------------------
(* Bounds of the model. *)

MaxCalls == 2        \* operations in a run of the whole program (Spec)
MaxDrawCalls == 3    \* operations in a run of SpecDraw
MaxTodoCalls == 4    \* operations in a run of SpecTodo
MaxErrCalls == 3     \* operations in a run of SpecErr

(* Inputs. *)

DrawKeys == {<<"w1", "n1">>, <<"w1", "n2">>}
Texts == {"hi", "yo"}
Colors == {"white"}      \* the builders' keyword default color="white"
Aligns == {"center"}     \* the builders' keyword default align="center"
TodoArgs ==
    { [id |-> "t1", text |-> "Buy milk", by |-> "alice", deadline |-> 1700000000],
      [id |-> "t2", text |-> "Ship release", by |-> "bob", deadline |-> 1700003600] }
Indexes == {-1, 0, 1, 2}
UnknownActions == {"unsupported_x"}
ImageFiles == {"logo.png"}
ChartData == { << <<1, 2>>, <<3, 12>> >> }
MalformedFrames ==
    { [name |-> "n1", value |-> [kind |-> "json", doc |-> <<>>], id |-> "w1"],
      [action |-> "text", name |-> "n1", value |-> [kind |-> "text", doc |-> "{oops"],
       id |-> "w1"],
      [action |-> "exit", name |-> "", value |-> [kind |-> "text", doc |-> "{oops"],
       id |-> "exit"] }

PyValues ==     \* objects a script may pass to print
    { [kind |-> "str", s |-> "hi"], [kind |-> "str", s |-> "yo"], [kind |-> "int", n |-> 7] }
OutTexts == {"hi", "yo"}    \* strings the interpreter writes to a stream

----------------------------------------------------------------------------
(* Python builtins used by the client. *)

\* str(x): a str is returned as it is, an int is rendered in decimal.
str(x) == IF x.kind = "str" THEN x.s ELSE ToString(x.n)

\* json.dumps(value, ensure_ascii=False): the value as a JSON document, held in
\* a str.  A dict becomes an object, a list or a tuple an array, and non-ASCII
\* characters are kept, so the document carries the value itself; what changes
\* is that the result is text, which the receiver must parse before use.
json_dumps(value) == [kind |-> "json", doc |-> value]

----------------------------------------------------------------------------
(* dashboard_sys: the transport primitives. *)

\* dashboard_sys.send(frame): the frame joins the channel behind those in flight.
dashboard_sys_send(frame) ==
    /\ chan' = Append(chan, frame)
    /\ UNCHANGED printed

\* dashboard_sys.print(s): the string goes to the engine's print primitive.
dashboard_sys_print(s) ==
    /\ printed' = Append(printed, s)
    /\ UNCHANGED chan

----------------------------------------------------------------------------
(* scripts/dashboard.py *)

FrameData(action, name, value, id) ==
    [action |-> action, name |-> name, value |-> value, id |-> id]

print(text) == dashboard_sys_print(str(text))

\* send with the id and the name given to the wrong fields of the frame.
send_swapped(id, action, name, value) ==
    dashboard_sys_send(FrameData(action, id, json_dumps(value), name))

send(id, action, name, value) ==
    dashboard_sys_send(FrameData(action, name, json_dumps(value), id))

image(id, name, filepath) ==
    send(id, "image", name, [filepath |-> filepath])

text(id, name, txt, color, align) ==
    send(id, "text", name, [text |-> txt, color |-> color, align |-> align])

styled_text(id, name, lines, color, align) ==
    send(id, "color_text", name, [color |-> color, lines |-> lines, align |-> align])

make_text(txt, color, bold, underline, italic, crossline) ==
    [text |-> txt, color |-> color, bold |-> bold, underline |-> underline,
     italic |-> italic, crossline |-> crossline]

\* chart(id, name, data) with every keyword argument at its default.
chart(id, name, data) ==
    send(id, "chart", name,
         [data |-> data, name |-> name, description |-> "", graph_type |-> "line",
          marker_type |-> "braille", color |-> "white",
          x_title |-> "", x_color |-> "blue", x_bounds |-> <<0, 10>>, x_labels |-> <<>>,
          y_title |-> "", y_color |-> "red", y_bounds |-> <<0, 10>>, y_labels |-> <<>>])

\* big_text passing name=id, as todo_add does.
big_text_name_is_id(id, name, txt, color, align) ==
    send(id, "big", id, [text |-> txt, color |-> color, align |-> align])

big_text(id, name, txt, color, align) ==
    send(id, "big", name, [text |-> txt, color |-> color, align |-> align])

\* reload_scripts with the function's name as the action.
reload_scripts_misnamed == send("reload", "reload_scripts", "reload", <<>>)

reload_scripts == send("reload", "reload", "reload", <<>>)

\* todo_add with text and by exchanged in the payload.
todo_add_swapped(id, txt, by, deadline) ==
    send(id, "todo_add", id, [text |-> by, by |-> txt, deadline |-> deadline])

todo_add(id, txt, by, deadline) ==
    send(id, "todo_add", id, [text |-> txt, by |-> by, deadline |-> deadline])

\* todo_done sending a one-based position as if it were converted.
todo_done_off_by_one(index) == send("todo", "todo_done", "", [index |-> index - 1])

\* todo_done with todo_del's action.
todo_done_as_del(index) == send("todo", "todo_del", "", [index |-> index])

todo_done(index) == send("todo", "todo_done", "", [index |-> index])

\* todo_del with todo_done's action.
todo_del_as_done(index) == send("todo", "todo_done", "", [index |-> index])

todo_del(index) == send("todo", "todo_del", "", [index |-> index])

exit == send("exit", "exit", "", <<>>)

\* FileOut.write building a print frame and handing it to send.
FileOut_write_send(txt) == send("", "print", "", [text |-> txt])

\* FileOut.write(self, text): text is the str the interpreter writes.
FileOut_write(txt) == print([kind |-> "str", s |-> txt])

\* sys.stdout = FileOut(); sys.stderr = FileOut()
InstallCapture ==
    /\ stdout' = "FileOut"
    /\ stderr' = "FileOut"

\* A write to a stream goes to whatever the stream is bound to; the original
\* console is outside the model.
stream_write(stream, txt) ==
    IF stream = "FileOut" THEN FileOut_write(txt) ELSE UNCHANGED <<chan, printed>>

----------------------------------------------------------------------------
(* The receiving engine: frame decoding, widget registry, todo list. *)

DrawActions == {"text", "color_text", "big", "image", "chart"}
RecognizedActions ==
    DrawActions \cup {"todo_add", "todo_done", "todo_del", "reload", "exit", "print"}

\* decode fails with MalformedFrame when action is missing or value is not JSON.
Malformed(e) == ("action" \notin DOMAIN e) \/ (e.value.kind # "json")

json_loads(s) == s.doc

\* An envelope lacking id has it defaulted to the empty string.
KeyOf(e) == <<IF "id" \in DOMAIN e THEN e.id ELSE "", e.name>>

\* Python position k of the todo list.
InRange(k, td) == 0 <= k /\ k < Len(td)

RemoveAt(td, k) == [i \in 1..(Len(td) - 1) |-> IF i <= k THEN td[i] ELSE td[i + 1]]

\* Applying a draw action for key k sets k's action and payload and counts the apply.
Upsert(reg, k, action, payload) ==
    [x \in (DOMAIN reg) \cup {k} |->
        IF x = k
        THEN [action |-> action, payload |-> payload,
              version |-> (IF k \in DOMAIN reg THEN reg[k].version ELSE 0) + 1]
        ELSE reg[x]]

EmptyRegistry == [x \in {} |-> 0]

ApplyOutcome(e, td) ==
    IF Malformed(e) THEN "MalformedFrame"
    ELSE IF e.action \notin RecognizedActions THEN "UnknownAction"
    ELSE IF e.action \in {"todo_done", "todo_del"} /\ ~InRange(json_loads(e.value).index, td)
         THEN "IndexOutOfRange"
    ELSE "ok"

\* A registry that stores whatever frame arrives, whatever its action.
ApplyRegistry_any(e, reg) ==
    IF Malformed(e) THEN reg
    ELSE IF e.action = "reload" THEN EmptyRegistry
    ELSE Upsert(reg, KeyOf(e), e.action, json_loads(e.value))

ApplyRegistry(e, reg) ==
    IF Malformed(e) THEN reg
    ELSE IF e.action \in DrawActions THEN Upsert(reg, KeyOf(e), e.action, json_loads(e.value))
    ELSE IF e.action = "reload" THEN EmptyRegistry
    ELSE reg

ApplyTodos(e, td) ==
    IF ApplyOutcome(e, td) # "ok" THEN td
    ELSE IF e.action = "todo_add"
         THEN LET v == json_loads(e.value)
              IN  Append(td, [text |-> v.text, by |-> v.by, deadline |-> v.deadline,
                              done |-> FALSE])
    ELSE IF e.action = "todo_done"
         THEN [td EXCEPT ![json_loads(e.value).index + 1].done = TRUE]
    ELSE IF e.action = "todo_del" THEN RemoveAt(td, json_loads(e.value).index)
    ELSE td

\* A receiver that also gives up on a frame it cannot decode.
ApplyRunning_strict(e) == ~Malformed(e) /\ e.action # "exit"

\* exit is the only frame that ends the session.
ApplyRunning(e) == ~(~Malformed(e) /\ e.action = "exit")

----------------------------------------------------------------------------
(* History variables: what the properties below need to remember. *)

DrawOps == {"text", "styled_text", "big_text", "image", "chart"}

Call(op, id, name, arg) == [op |-> op, id |-> id, name |-> name, arg |-> arg]
NoCall == Call("none", "", "", 0)
NoApply == [env |-> <<>>, call |-> NoCall, todos |-> <<>>, reg |-> EmptyRegistry,
            err |-> "ok", seq |-> 0]

\* A client operation: its effect on the transport, then the bookkeeping.
Record(c) ==
    /\ calls' = calls + 1
    /\ nsent' = nsent + (Len(chan') - Len(chan))
    /\ origin' = IF Len(chan') > Len(chan)
                 THEN Append(origin, [call |-> c, seq |-> nsent + 1])
                 ELSE origin
    /\ lastCall' = [call |-> c, nsent |-> nsent, printed |-> printed]
    /\ UNCHANGED <<receiverVars, applyHist>>

RecordApply(e, o) ==
    /\ napplied' = napplied + 1
    /\ last' = [env |-> e, call |-> o.call, todos |-> todos, reg |-> registry,
                err |-> err, seq |-> o.seq]
    /\ prev' = last
    /\ lastDraw' =
         IF o.call.op = "reload_scripts" THEN EmptyRegistry
         ELSE IF o.call.op \in DrawOps
              THEN [x \in (DOMAIN lastDraw) \cup {<<o.call.id, o.call.name>>} |->
                       IF x = <<o.call.id, o.call.name>> THEN e ELSE lastDraw[x]]
         ELSE lastDraw
    /\ preReload' =
         IF o.call.op = "reload_scripts"
         THEN [x \in (DOMAIN registry) \cup (DOMAIN preReload) |->
                  IF x \in DOMAIN registry THEN registry[x] ELSE preReload[x]]
         ELSE preReload
    /\ addLog' = IF o.call.op = "todo_add" THEN Append(addLog, o.call.arg) ELSE addLog
    /\ onlyAdds' = (onlyAdds /\ o.call.op \notin {"todo_done", "todo_del"})

----------------------------------------------------------------------------
(* The state machine. *)

Init ==
    /\ loaded = FALSE
    /\ stdout = "console"
    /\ stderr = "console"
    /\ chan = <<>>
    /\ printed = <<>>
    /\ registry = EmptyRegistry
    /\ todos = <<>>
    /\ running = TRUE
    /\ err = "ok"
    /\ calls = 0
    /\ origin = <<>>
    /\ nsent = 0
    /\ napplied = 0
    /\ lastCall = [call |-> NoCall, nsent |-> 0, printed |-> <<>>]
    /\ last = NoApply
    /\ prev = NoApply
    /\ lastDraw = EmptyRegistry
    /\ preReload = EmptyRegistry
    /\ addLog = <<>>
    /\ onlyAdds = TRUE

\* Importing the module runs its body, which ends by installing the capture.
LoadModule ==
    /\ ~loaded
    /\ loaded' = TRUE
    /\ InstallCapture
    /\ UNCHANGED <<transportVars, receiverVars, callHist, applyHist>>

Call_text ==
    \E k \in DrawKeys, t \in Texts, c \in Colors, a \in Aligns :
        /\ loaded
        /\ text(k[1], k[2], t, c, a)
        /\ Record(Call("text", k[1], k[2], t))
        /\ UNCHANGED clientVars

Call_big_text ==
    \E k \in DrawKeys, t \in Texts, c \in Colors, a \in Aligns :
        /\ loaded
        /\ big_text(k[1], k[2], t, c, a)
        /\ Record(Call("big_text", k[1], k[2], t))
        /\ UNCHANGED clientVars

Call_styled_text ==
    \E k \in DrawKeys, t \in Texts, c \in Colors, a \in Aligns :
        /\ loaded
        /\ styled_text(k[1], k[2], <<make_text(t, c, TRUE, FALSE, FALSE, FALSE)>>, c, a)
        /\ Record(Call("styled_text", k[1], k[2], t))
        /\ UNCHANGED clientVars

Call_image ==
    \E k \in DrawKeys, f \in ImageFiles :
        /\ loaded
        /\ image(k[1], k[2], f)
        /\ Record(Call("image", k[1], k[2], f))
        /\ UNCHANGED clientVars

Call_chart ==
    \E k \in DrawKeys, d \in ChartData :
        /\ loaded
        /\ chart(k[1], k[2], d)
        /\ Record(Call("chart", k[1], k[2], d))
        /\ UNCHANGED clientVars

Call_reload_scripts ==
    /\ loaded
    /\ reload_scripts
    /\ Record(Call("reload_scripts", "", "", 0))
    /\ UNCHANGED clientVars

Call_todo_add ==
    \E t \in TodoArgs :
        /\ loaded
        /\ todo_add(t.id, t.text, t.by, t.deadline)
        /\ Record(Call("todo_add", t.id, "", t))
        /\ UNCHANGED clientVars

Call_todo_done ==
    \E i \in Indexes :
        /\ loaded
        /\ todo_done(i)
        /\ Record(Call("todo_done", "", "", i))
        /\ UNCHANGED clientVars

Call_todo_del ==
    \E i \in Indexes :
        /\ loaded
        /\ todo_del(i)
        /\ Record(Call("todo_del", "", "", i))
        /\ UNCHANGED clientVars

Call_exit ==
    /\ loaded
    /\ exit
    /\ Record(Call("exit", "", "", 0))
    /\ UNCHANGED clientVars

\* A script calling send itself, with an action the engine does not know.
Call_send ==
    \E k \in DrawKeys, a \in UnknownActions :
        /\ loaded
        /\ send(k[1], a, k[2], <<>>)
        /\ Record(Call("send", k[1], k[2], a))
        /\ UNCHANGED clientVars

Call_print ==
    \E x \in PyValues :
        /\ loaded
        /\ print(x)
        /\ Record(Call("print", "", "", x))
        /\ UNCHANGED clientVars

Write_stdout ==
    \E t \in OutTexts :
        /\ loaded
        /\ stream_write(stdout, t)
        /\ Record(Call("stdout.write", "", "", t))
        /\ UNCHANGED clientVars

Write_stderr ==
    \E t \in OutTexts :
        /\ loaded
        /\ stream_write(stderr, t)
        /\ Record(Call("stderr.write", "", "", t))
        /\ UNCHANGED clientVars

\* A frame that reaches the channel damaged: its action lost, or its value not JSON.
ForeignFrame ==
    \E f \in MalformedFrames :
        /\ loaded
        /\ dashboard_sys_send(f)
        /\ Record(Call("foreign", "", "", 0))
        /\ UNCHANGED clientVars

\* The receiver applies the frame at the head of the channel.
Deliver ==
    /\ running
    /\ chan # <<>>
    /\ LET e == Head(chan)
       IN  /\ chan' = Tail(chan)
           /\ registry' = ApplyRegistry(e, registry)
           /\ todos' = ApplyTodos(e, todos)
           /\ running' = ApplyRunning(e)
           /\ err' = ApplyOutcome(e, todos)
           /\ RecordApply(e, Head(origin))
    /\ origin' = Tail(origin)
    /\ UNCHANGED <<clientVars, printed, calls, nsent, lastCall>>

DrawCall ==
    Call_text \/ Call_big_text \/ Call_styled_text \/ Call_image \/ Call_chart
TodoCall == Call_todo_add \/ Call_todo_done \/ Call_todo_del
OutCall == Call_print \/ Write_stdout \/ Write_stderr

Next ==
    \/ LoadModule
    \/ calls < MaxCalls /\ DrawCall
    \/ calls < MaxCalls /\ TodoCall
    \/ calls < MaxCalls /\ OutCall
    \/ calls < MaxCalls /\ Call_reload_scripts
    \/ calls < MaxCalls /\ Call_exit
    \/ calls < MaxCalls /\ Call_send
    \/ calls < MaxCalls /\ ForeignFrame
    \/ Deliver

Spec == Init /\ [][Next]_vars

\* Drawing and reloading only.
NextDraw ==
    \/ LoadModule
    \/ calls < MaxDrawCalls /\ DrawCall
    \/ calls < MaxDrawCalls /\ Call_reload_scripts
    \/ Deliver

SpecDraw == Init /\ [][NextDraw]_vars

\* The todo list only.
NextTodo ==
    \/ LoadModule
    \/ calls < MaxTodoCalls /\ TodoCall
    \/ Deliver

SpecTodo == Init /\ [][NextTodo]_vars

\* Frames the receiver rejects or ignores, among frames it applies.
NextErr ==
    \/ LoadModule
    \/ calls < MaxErrCalls /\ Call_text
    \/ calls < MaxErrCalls /\ TodoCall
    \/ calls < MaxErrCalls /\ Call_send
    \/ calls < MaxErrCalls /\ ForeignFrame
    \/ calls < MaxErrCalls /\ Call_exit
    \/ Deliver

SpecErr == Init /\ [][NextErr]_vars

----------------------------------------------------------------------------
(* Properties. *)

Widget(k) == registry[k]
CallKey(c) == <<c.id, c.name>>
Item(a, done) == [text |-> a.text, by |-> a.by, deadline |-> a.deadline, done |-> done]
Failures == {"MalformedFrame", "UnknownAction", "IndexOutOfRange"}

\* C1: every widget in the registry carries the action and the payload of the
\* draw frame most recently applied for its key since the last reload, and the
\* receiver applies frames in the order they were handed to the transport:
\* the n-th frame applied is the n-th frame sent.
C1_LastAppliedWins ==
    /\ \A k \in DOMAIN registry :
          /\ k \in DOMAIN lastDraw
          /\ Widget(k).action = lastDraw[k].action
          /\ Widget(k).payload = lastDraw[k].value.doc
    /\ napplied > 0 => last.seq = napplied

\* A key drawn twice with different frames shows the second one.
C1_Witness ==
    /\ napplied >= 2
    /\ last.call.op \in DrawOps /\ prev.call.op \in DrawOps
    /\ CallKey(last.call) = CallKey(prev.call)
    /\ prev.env.action # last.env.action
    /\ CallKey(last.call) \in DOMAIN registry
    /\ Widget(CallKey(last.call)).action = last.env.action
    /\ Widget(CallKey(last.call)).version = 2

\* C2: applying a draw frame for key K makes K's version one more than it was
\* (1 when K was absent), also when the payload is the one already stored; the
\* same draw frame applied twice to an empty registry leaves exactly one widget,
\* at version 2, with the frame's value as payload.
C2_VersionCounts ==
    /\ last.call.op \in DrawOps =>
          /\ CallKey(last.call) \in DOMAIN registry
          /\ Widget(CallKey(last.call)).version =
                (IF CallKey(last.call) \in DOMAIN last.reg
                 THEN last.reg[CallKey(last.call)].version ELSE 0) + 1
    /\ (napplied = 2 /\ last.call.op \in DrawOps /\ prev.env = last.env) =>
          /\ DOMAIN registry = {CallKey(last.call)}
          /\ Widget(CallKey(last.call)).version = 2
          /\ Widget(CallKey(last.call)).payload = last.env.value.doc

\* The same big_text frame applied twice to an empty registry.
C2_Witness ==
    /\ napplied = 2
    /\ last.call.op = "big_text"
    /\ prev.env = last.env
    /\ Cardinality(DOMAIN registry) = 1
    /\ Widget(CallKey(last.call)).version = 2
    /\ Widget(CallKey(last.call)).payload = last.reg[CallKey(last.call)].payload

\* C3: once the frame of reload_scripts (id "reload", name "reload") is applied
\* the registry holds no widget, and the first text frame applied afterwards
\* for a key that a reload cleared creates the widget at version 1, not at the
\* cleared widget's version plus one.
C3_ReloadClears ==
    /\ last.call.op = "reload_scripts" =>
          /\ last.env.id = "reload" /\ last.env.name = "reload"
          /\ DOMAIN registry = {}
    /\ ( /\ last.call.op = "text"
         /\ CallKey(last.call) \in DOMAIN preReload
         /\ CallKey(last.call) \notin DOMAIN last.reg ) =>
          /\ CallKey(last.call) \in DOMAIN registry
          /\ Widget(CallKey(last.call)).version = 1
          /\ Widget(CallKey(last.call)).version #
                preReload[CallKey(last.call)].version + 1

\* text, reload, then text again for the same key.
C3_Witness ==
    /\ last.call.op = "text"
    /\ prev.call.op = "reload_scripts"
    /\ CallKey(last.call) \in DOMAIN preReload
    /\ preReload[CallKey(last.call)].version >= 1
    /\ DOMAIN last.reg = {}
    /\ Widget(CallKey(last.call)).version = 1

\* C4: todo_del(k) with 0 <= k < length removes the item at position k: the
\* list is one shorter, items before k keep their position, items after k move
\* down by one, unchanged; so a todo_done(k) applied right after it marks the
\* item that was at position k+1 before the delete.
C4_DelShifts ==
    /\ ( /\ last.call.op = "todo_del"
         /\ 0 <= last.call.arg /\ last.call.arg < Len(last.todos) ) =>
          /\ Len(todos) = Len(last.todos) - 1
          /\ \A i \in 0..(Len(last.todos) - 1) :
                /\ i < last.call.arg => todos[i + 1] = last.todos[i + 1]
                /\ i > last.call.arg => todos[i] = last.todos[i + 1]
    /\ ( /\ prev.call.op = "todo_del" /\ last.call.op = "todo_done"
         /\ last.call.arg = prev.call.arg
         /\ 0 <= prev.call.arg /\ prev.call.arg + 1 < Len(prev.todos) ) =>
          /\ todos[last.call.arg + 1] =
                [prev.todos[prev.call.arg + 2] EXCEPT !.done = TRUE]

\* Two items, todo_del(0), todo_done(0): the item that was second is done.
C4_Witness ==
    /\ prev.call.op = "todo_del" /\ last.call.op = "todo_done"
    /\ prev.call.arg = 0 /\ last.call.arg = 0
    /\ Len(prev.todos) = 2
    /\ prev.todos[1].text # prev.todos[2].text
    /\ ~prev.todos[2].done
    /\ Len(todos) = 1
    /\ todos[1].text = prev.todos[2].text /\ todos[1].done

\* C5: todo_done(index) and todo_del(index) with index outside 0..length-1
\* fail with IndexOutOfRange and leave the todo list as it was.
C5_OutOfRange ==
    ( /\ last.call.op \in {"todo_done", "todo_del"}
      /\ ~(0 <= last.call.arg /\ last.call.arg < Len(last.todos)) ) =>
        /\ err = "IndexOutOfRange"
        /\ todos = last.todos

\* todo_done(N) then todo_del(N) on a list of length N >= 1.
C5_Witness ==
    /\ prev.call.op = "todo_done" /\ last.call.op = "todo_del"
    /\ Len(last.todos) >= 1
    /\ prev.call.arg = Len(prev.todos) /\ last.call.arg = Len(last.todos)
    /\ last.err = "IndexOutOfRange" /\ err = "IndexOutOfRange"
    /\ todos = prev.todos

\* C6: as long as only todo_add frames have reached the todo list, the list
\* holds one item per applied todo_add call, in call order, with that call's
\* text, by and deadline and done = false.
C6_AddAppends ==
    onlyAdds =>
        /\ Len(todos) = Len(addLog)
        /\ \A i \in 1..Len(addLog) : todos[i] = Item(addLog[i], FALSE)

\* Three adds, not all the same.
C6_Witness ==
    /\ onlyAdds
    /\ Len(todos) = 3
    /\ todos[1].text = "Buy milk" /\ todos[2].text = "Ship release"
    /\ todos[3].by = "alice"

\* C7: todo_done(k) with 0 <= k < length sets done on the item at position k
\* and changes nothing else: same length, same order, same text, by and
\* deadline everywhere, same done flag on every other item.
C7_DoneInPlace ==
    ( /\ last.call.op = "todo_done"
      /\ 0 <= last.call.arg /\ last.call.arg < Len(last.todos) ) =>
        /\ Len(todos) = Len(last.todos)
        /\ \A i \in 1..Len(last.todos) :
              /\ todos[i].text = last.todos[i].text
              /\ todos[i].by = last.todos[i].by
              /\ todos[i].deadline = last.todos[i].deadline
              /\ todos[i].done = (i = last.call.arg + 1 \/ last.todos[i].done)

\* todo_done(1) on two items that were both not done.
C7_Witness ==
    /\ last.call.op = "todo_done" /\ last.call.arg = 1
    /\ Len(last.todos) = 2
    /\ ~last.todos[1].done /\ ~last.todos[2].done
    /\ ~todos[1].done /\ todos[2].done

IsWrite(c) == c.op \in {"stdout.write", "stderr.write"}

C9_UnknownIgnored ==
    (last.call.op = "send" /\ last.call.arg \in UnknownActions) =>
        /\ err = "UnknownAction"
        /\ registry = last.reg
        /\ todos = last.todos
        /\ running

\* An unknown action for the key of an existing widget, with a todo item present.
C9_Witness ==
    /\ last.call.op = "send" /\ last.env.action = "unsupported_x"
    /\ CallKey(last.call) \in DOMAIN registry
    /\ todos # <<>>
    /\ err = "UnknownAction"

\* C10: the session is over only when the last frame applied was a well-formed
\* exit frame; a frame that failed (malformed, unknown action, index out of
\* range) leaves the session running; no frame handed to the transport is lost;
\* and while the session runs the frame at the head of the channel can be applied.
C10_OnlyExitEnds ==
    /\ ~running =>
          /\ napplied > 0
          /\ "action" \in DOMAIN last.env /\ last.env.action = "exit"
          /\ last.env.value.kind = "json"
    /\ err \in Failures => running
    /\ napplied + Len(chan) = nsent
    /\ (running /\ chan # <<>>) => ENABLED Deliver

\* A text frame applied right after a frame that failed.
C10_Witness ==
    /\ last.err \in Failures
    /\ last.call.op = "text"
    /\ err = "ok" /\ running
    /\ CallKey(last.call) \in DOMAIN registry
    /\ CallKey(last.call) \notin DOMAIN last.reg

====
